---- MODULE Spec2Model ----
(***************************************************************************)
(* A model of the akore core: the Lexer and its Tokens (nested-delimiter   *)
(* extraction), the Schema comparator and the Registry with its            *)
(* serialization cache.                                                    *)
(*                                                                         *)
(* Strings are sequences of one-character strings; every index kept in the *)
(* state is 0-based, as in the source, and converted where a sequence is   *)
(* read.                                                                   *)
(***************************************************************************)
EXTENDS Integers, Sequences, FiniteSets, TLC

VARIABLES
    competences,  \* Lexer.competences: the live map, in insertion order
    options,      \* Lexer.options
    input,        \* the string handed to tokenize()
    pc,           \* where the tokenize generator stands
    comps,        \* tokenize's local array `competences`
    pattern,      \* tokenize's local `pattern` (the alternatives, in order)
    lastIndex,    \* pattern.lastIndex
    match,        \* the current RegExp match, <<>> when there is none
    tok,          \* the Token being constructed or just yielded, <<>> when none
    i,            \* the Token constructor's loop index
    depth,        \* the Token constructor's depth counter
    last,         \* tokenize's local `last`, <<>> when undefined
    yielded,      \* the tokens the generator has yielded so far
    warns,        \* number of Logger.warn calls made by the lexer (saturating)
    err,          \* the error that ended the generator, "none" when none
    lexPulls,     \* pulls made on the finished tokenize generator (saturating)
    cmpValue,     \* the value handed to Schema.compare
    cmpStructure, \* the Schema's structure
    cmpResult,    \* what Schema.compare did: "none" before the call
    schemas,      \* the Registry's map: type tag -> Schema.structure
    serializations, \* Registry.serializations: node -> string
    nodes,        \* the Node objects: their type and their current value
    lastOp,       \* the last Registry operation and what it returned
    misses,       \* per node, the node.serialize() calls made by Registry.serialize
    returned,     \* per node, the strings resolve without skip_cache returned
    declared,     \* number of declare and undeclare calls made on the transpiler
    trWarns,      \* number of Logger.warn calls made by the transpiler's logger
    trOp,         \* the last declare or undeclare call: its name and arguments
    stream,       \* the tokens of the iterator handed to parse: their competences
    pulled,       \* how many tokens parse took from the iterator with next()
    current,      \* parse's `current`: the position of its token, 0 when done
    result,       \* parse's `result`: tokens, named by their position in stream
    eated,        \* per token, its eated.before and eated.after lists
    parsePc,      \* where parse stands: "ready", "loop", "returned", "threw"
    parseErr,     \* the error Logger.throw raised in parse
    synTokens,    \* the tokens handed to synthesize: what each resolves to
    synPos,       \* how many of them the generator has taken
    synOut,       \* the nodes the generator has yielded
    synPc,        \* the generator: "ready", "suspended", "done", "threw"
    synErr,       \* the error nodify threw, "none" when none
    synLog,       \* what the transpiler's Logger.throw was called with
    synPulls,     \* pulls made on the finished generator (saturating)
    cells,        \* the arrays in memory: a reference is a position in cells
    objs,         \* the Node objects: their class, type and value
    origin,       \* per Node object, the object clone() made it from, 0 if none
    nodOp,        \* the last operation on a Node object and the object it used
    spCompetence, \* the competence splitByDelimiter is called on
    spInside,     \* splitByDelimiter's `inside`
    spCurrent,    \* splitByDelimiter's `current`
    spIndex,      \* splitByDelimiter's `index`
    spDepth,      \* splitByDelimiter's `depth`
    spYielded,    \* the segments the generator has yielded
    spPc          \* the generator: "off", "loop", "done"

lexVars == <<competences, options, input, pc, comps, pattern, lastIndex, match,
             tok, i, depth, last, yielded, warns, err,
             lexPulls>>

schVars == <<cmpValue, cmpStructure, cmpResult>>

regVars == <<schemas, serializations, nodes, lastOp, misses, returned>>

trVars == <<declared, trWarns, trOp>>

parVars == <<stream, pulled, current, result, eated, parsePc, parseErr>>

synVars == <<synTokens, synPos, synOut, synPc, synErr, synLog, synPulls>>

nodVars == <<cells, objs, origin, nodOp>>

spVars == <<spCompetence, spInside, spCurrent, spIndex, spDepth, spYielded, spPc>>

vars == <<lexVars, schVars, regVars, trVars, parVars, synVars, nodVars, spVars>>

\* What the Lexer's steps, Schema.compare and the Registry's operations leave
\* alone.
notGen == <<schVars, regVars, trVars, parVars, synVars, nodVars, spVars>>
notLex == <<notGen, lexPulls>>
notSch == <<lexVars, regVars, trVars, parVars, synVars, nodVars, spVars>>
notReg == <<lexVars, schVars, trVars, parVars, synVars, nodVars, spVars>>
notLexTr == <<schVars, regVars, parVars, synVars, nodVars, spVars, lexPulls>>
notPar == <<lexVars, schVars, regVars, trVars, synVars, nodVars, spVars>>
notSyn == <<lexVars, schVars, regVars, trVars, parVars, nodVars, spVars>>
notNod == <<lexVars, schVars, regVars, trVars, parVars, synVars, spVars>>
notSp == <<lexVars, schVars, regVars, trVars, parVars, synVars, nodVars>>

----------------------------------------------------------------------------
(* Bounds of the model.                                                    *)

\* The enumerated inputs are the concatenations of at most MaxPieces pieces.
MaxPieces == 4
\* The warning counter saturates here.
MaxWarns == 2
\* The longest array value and the longest array schema handed to compare.
MaxItems == 2
MaxTypes == 2
\* The longest list of nodes handed to Registry.batch.
MaxBatch == 2
\* The number of declare and undeclare calls made on one transpiler, and the
\* longest argument list of one call.
MaxDeclares == 3
MaxArgs == 2
\* The longest token stream handed to parse.
MaxStream == 4
\* The longest token list handed to synthesize, and the pulls counted on a
\* finished generator.
MaxTokens == 3
MaxPulls == 1
\* The number of Node objects in memory and the longest array a Node holds.
MaxObjects == 5
MaxLength == 2

----------------------------------------------------------------------------
(* Program constants.                                                      *)

UNSTOPPABLE == 1
DIRECT_ENTRY == 2
FailWhenUnmatch == 1

----------------------------------------------------------------------------
(* Strings.                                                                *)

Min(a, b) == IF a < b THEN a ELSE b
Max(a, b) == IF a > b THEN a ELSE b

\* String.prototype.slice(from, to): negative indices count from the end,
\* both are clamped to the length, an empty range gives "".
SliceIndex(x, n) == IF x < 0 THEN Max(n + x, 0) ELSE Min(x, n)
Slice(s, from, to) ==
    LET a == SliceIndex(from, Len(s))
        b == SliceIndex(to, Len(s))
    IN  IF a >= b THEN <<>> ELSE SubSeq(s, a + 1, b)

\* The characters String.prototype.trim removes (those the inputs use).
WhiteSpace == {" ", "\n"}

RECURSIVE TrimStart(_)
TrimStart(s) ==
    IF s # <<>> /\ Head(s) \in WhiteSpace THEN TrimStart(Tail(s)) ELSE s

RECURSIVE TrimEnd(_)
TrimEnd(s) ==
    IF s # <<>> /\ s[Len(s)] \in WhiteSpace
    THEN TrimEnd(SubSeq(s, 1, Len(s) - 1))
    ELSE s

Trim(s) == TrimEnd(TrimStart(s))

\* A pattern that was not given (undefined) is this marker, which is no set
\* of characters; opener, closer and inside are only ever tested against one
\* character, so a given pattern is the set of characters it accepts.
Undefined == {"<undefined>"}
Test(p, char) == p # Undefined /\ char \in p

\* word occurs in s at the 0-based position p
MatchAt(word, s, p) ==
    /\ p + Len(word) <= Len(s)
    /\ SubSeq(s, p + 1, p + Len(word)) = word

\* RegExp.prototype.test of a foremost pattern (a literal word, no anchors,
\* not global): it searches the whole text.
ForemostTest(word, text) == \E p \in 0..Len(text) : MatchAt(word, text, p)

----------------------------------------------------------------------------
(* Competences.                                                            *)

Competence(id, foremost, opener, closer, inside, flags) ==
    [identifier |-> id, foremost |-> foremost, opener |-> opener,
     closer |-> closer, inside |-> inside, flags |-> flags]

Literal == <<"l", "i", "t", "e", "r", "a", "l">>

\* test/transpiler.test.ts CLiteral: literal( ... )
CLiteral == Competence("test:literal", Literal, {"("}, {")"}, Undefined, 0)

\* A block competence: { ... }, entered directly, nested by its own braces.
CBlock == Competence("test:block", <<"{">>, {"{"}, {"}"}, Undefined,
                     DIRECT_ENTRY + UNSTOPPABLE)

\* Competences with an inside pattern: one that stops at a character the
\* pattern rejects, one that skips it.
CGroup == Competence("test:group", <<"a">>, {"("}, {")"}, {"a", "("}, 0)
CSkip == Competence("test:skip", <<"a">>, {"("}, {")"}, {"a"}, UNSTOPPABLE)

\* A competence entered directly that has no closer pattern.
CBroken == Competence("test:broken", <<"[">>, Undefined, Undefined, Undefined,
                      DIRECT_ENTRY)

\* Two competences without delimiters, the foremost of the first found
\* inside the text the foremost of the second matches.
CB == Competence("test:b", <<"b">>, Undefined, Undefined, Undefined, 0)
CAB == Competence("test:ab", <<"a", "b">>, Undefined, Undefined, Undefined, 0)

\* The competence maps a Lexer is constructed with.
Setups == { <<>>, <<CLiteral>>, <<CBlock>>, <<CLiteral, CBlock>>,
            <<CGroup>>, <<CSkip>>, <<CBroken>>, <<CB, CAB>> }

----------------------------------------------------------------------------
(* Inputs.                                                                 *)

\* The pieces the enumerated inputs of a Lexer are made of: the foremost
\* words of its competences, the characters their opener and closer patterns
\* accept, a blank, and "x" for every character no pattern mentions.
Chars(p) == IF p = Undefined THEN {} ELSE p

Pieces(cs) ==
    { <<" ">>, <<"x">> }
    \cup { cs[k].foremost : k \in 1..Len(cs) }
    \cup { <<ch>> : ch \in UNION { Chars(cs[k].opener) \cup Chars(cs[k].closer) :
                                    k \in 1..Len(cs) } }

RECURSIVE Concat(_)
Concat(ps) == IF ps = <<>> THEN <<>> ELSE Head(ps) \o Concat(Tail(ps))

Enumerated(cs) ==
    { Concat(ps) : ps \in UNION { [1..n -> Pieces(cs)] : n \in 0..MaxPieces } }

\* "{ a { b } c }"
BlockExample ==
    <<"{", " ", "a", " ", "{", " ", "b", " ", "}", " ", "c", " ", "}">>

\* "literal(a) junk { a }" and the same without the stray text
JunkExample ==
    Literal \o <<"(", "a", ")", " ", "j", "u", "n", "k", " ", "{", " ", "a", " ", "}">>
CleanExample == Literal \o <<"(", "a", ")", " ", "{", " ", "a", " ", "}">>

Inputs(cs) == Enumerated(cs) \cup {BlockExample, JunkExample, CleanExample}

----------------------------------------------------------------------------
(* The combined pattern.                                                   *)

\* Lexer.createPattern: the foremost sources joined by "|", in map order.
\* Joining no source gives the empty pattern, which matches the empty string.
createPattern(cs) ==
    IF cs = <<>> THEN << <<>> >> ELSE [k \in 1..Len(cs) |-> cs[k].foremost]

\* pattern.exec(input) from lastIndex (global flag): the leftmost position at
\* or after lastIndex where an alternative matches, and there the first
\* alternative that matches; <<>> when there is none.
exec(pat, s, from) ==
    LET hits == { p \in from..Len(s) : \E k \in 1..Len(pat) : MatchAt(pat[k], s, p) }
    IN  IF hits = {} THEN <<>>
        ELSE LET p == CHOOSE x \in hits : \A y \in hits : x <= y
                 k == CHOOSE x \in 1..Len(pat) :
                        /\ MatchAt(pat[x], s, p)
                        /\ \A y \in 1..(x - 1) : ~MatchAt(pat[y], s, p)
             IN  << [index |-> p, text |-> pat[k]] >>

\* The index of the last competence whose foremost is found in the text.
findLast(cs, text) ==
    LET ok == { k \in 1..Len(cs) : ForemostTest(cs[k].foremost, text) }
    IN  IF ok = {} THEN 0 ELSE CHOOSE x \in ok : \A y \in ok : x >= y

\* competences.find((c) => c.patterns.foremost.test(match[0])): the index of
\* the first competence whose foremost is found in the text, 0 when none.
find(cs, text) ==
    LET ok == { k \in 1..Len(cs) : ForemostTest(cs[k].foremost, text) }
    IN  IF ok = {} THEN 0 ELSE CHOOSE x \in ok : \A y \in ok : x <= y

----------------------------------------------------------------------------
(* Tokens.                                                                 *)

\* Token.total
total(t) ==
    IF t.inside # <<>> THEN t.text \o t.opener \o t.inside \o t.closer
    ELSE t.text

\* Token.end counting the inside only.
endOfInside(t) == t.index + Len(t.inside)

\* Token.end without the length of the token's text.
endAtStart(t) == t.index

\* Token.start and Token.end
start(t) == t.index
end(t) == start(t) + Len(total(t))

\* The flags of a competence
forced(c) == (c.flags \div DIRECT_ENTRY) % 2 = 1
unstoppable(c) == (c.flags \div UNSTOPPABLE) % 2 = 1

\* The text after the match: match.input.slice(match.index + match[0].length)
after(t) == Slice(input, t.index + Len(t.text), Len(input))

----------------------------------------------------------------------------
(* Lexer.tokenize, a generator.  pc is                                     *)
(*   "idle"     tokenize() was called, nothing was pulled yet              *)
(*   "exec"     about to run pattern.exec(input)                           *)
(*   "matched"  pattern.exec returned a match                              *)
(*   "extract"  inside the Token constructor's loop                        *)
(*   "check"    the Token is constructed, the gap check comes next         *)
(*   "yielded"  suspended at `yield token`                                 *)
(*   "done"     the generator returned                                     *)
(*   "error"    the generator threw                                        *)

LexInit ==
    /\ competences \in Setups
    /\ options \in {0, FailWhenUnmatch}
    /\ input \in Inputs(competences)
    /\ pc = "idle"
    /\ comps = <<>>
    /\ pattern = <<>>
    /\ lastIndex = 0
    /\ match = <<>>
    /\ tok = <<>>
    /\ i = 0
    /\ depth = 0
    /\ last = <<>>
    /\ yielded = <<>>
    /\ warns = 0
    /\ err = "none"
    /\ lexPulls = 0

\* No Lexer is in use.
LexIdle ==
    /\ competences = <<>>
    /\ options = 0
    /\ input = <<>>
    /\ pc = "off"
    /\ comps = <<>>
    /\ pattern = <<>>
    /\ lastIndex = 0
    /\ match = <<>>
    /\ tok = <<>>
    /\ i = 0
    /\ depth = 0
    /\ last = <<>>
    /\ yielded = <<>>
    /\ warns = 0
    /\ err = "none"
    /\ lexPulls = 0

\* The first pull runs the generator's prologue: the local copy of the
\* competences and the combined pattern are made now.
Start ==
    /\ pc = "idle"
    /\ comps' = competences
    /\ pattern' = createPattern(competences)
    /\ lastIndex' = 0
    /\ pc' = "exec"
    /\ UNCHANGED <<competences, options, input, match, tok, i, depth, last,
                   yielded, warns, err>>
    /\ UNCHANGED notLex

\* pattern.exec(input) finds nothing: lastIndex is reset and the loop ends.
ExecNull ==
    /\ pc = "exec"
    /\ exec(pattern, input, lastIndex) = <<>>
    /\ match' = <<>>
    /\ lastIndex' = 0
    /\ pc' = "done"
    /\ UNCHANGED <<competences, options, input, comps, pattern, tok, i, depth,
                   last, yielded, warns, err>>
    /\ UNCHANGED notLex

\* pattern.exec(input) finds a match: lastIndex moves to the end of the match.
ExecMatch ==
    /\ pc = "exec"
    /\ exec(pattern, input, lastIndex) # <<>>
    /\ LET m == exec(pattern, input, lastIndex)[1]
       IN  /\ match' = <<m>>
           /\ lastIndex' = m.index + Len(m.text)
    /\ pc' = "matched"
    /\ UNCHANGED <<competences, options, input, comps, pattern, tok, i, depth,
                   last, yielded, warns, err>>
    /\ UNCHANGED notLex

\* No competence accepts the matched text: warn and continue the loop.
Skip ==
    /\ pc = "matched"
    /\ find(comps, match[1].text) = 0
    /\ warns' = Min(warns + 1, MaxWarns)
    /\ pc' = "exec"
    /\ UNCHANGED <<competences, options, input, comps, pattern, lastIndex, match,
                   tok, i, depth, last, yielded, err>>
    /\ UNCHANGED notLex

\* new Token({ competence, match }) up to the loop: the fields' initial
\* values, the closer requirement, and the test of the character after the
\* match.
NewToken(c, m) ==
    [competence |-> c, index |-> m.index, text |-> m.text,
     opener |-> <<>>, closer |-> <<>>, inside |-> <<>>, insideSet |-> FALSE]

Enters(c, t) ==
    /\ input # <<>>
    /\ forced(c) \/ c.opener # Undefined
    /\ c.closer # Undefined
    /\ after(t) # <<>>
    /\ forced(c) \/ Test(c.opener, after(t)[1])

Construct ==
    /\ pc = "matched"
    /\ find(comps, match[1].text) # 0
    /\ LET c == comps[find(comps, match[1].text)]
           t == NewToken(c, match[1])
       IN  IF input # <<>> /\ (forced(c) \/ c.opener # Undefined)
              /\ c.closer = Undefined
           THEN \* throw new Error("Inside processing requires a closer.")
                /\ tok' = <<t>>
                /\ pc' = "error"
                /\ err' = "config"
                /\ UNCHANGED <<i, depth>>
           ELSE IF Enters(c, t)
           THEN /\ tok' = << [t EXCEPT
                                !.opener = IF forced(c) THEN <<>>
                                           ELSE <<after(t)[1]>>,
                                !.insideSet = TRUE] >>
                /\ i' = 1
                /\ depth' = 0
                /\ pc' = "extract"
                /\ err' = err
           ELSE /\ tok' = <<t>>
                /\ pc' = "check"
                /\ UNCHANGED <<i, depth, err>>
    /\ UNCHANGED <<competences, options, input, comps, pattern, lastIndex, match,
                   last, yielded, warns>>
    /\ UNCHANGED notLex

\* One round of the Token constructor's loop over the text after the match.
Extract ==
    /\ pc = "extract"
    /\ LET t == tok[1]
           c == t.competence
           rest == after(t)
       IN  IF i >= Len(rest)
           THEN /\ pc' = "check"
                /\ UNCHANGED <<tok, i, depth>>
           ELSE LET char == rest[i + 1]
                    up == IF Test(c.opener, char) THEN depth + 1 ELSE depth
                    down == IF Test(c.closer, char) THEN up - 1 ELSE up
                IN  IF Test(c.closer, char) /\ depth = 0
                    THEN /\ tok' = << [t EXCEPT !.closer = <<char>>] >>
                         /\ pc' = "check"
                         /\ UNCHANGED <<i, depth>>
                    ELSE /\ depth' = down
                         /\ IF c.inside = Undefined \/ Test(c.inside, char)
                            THEN /\ tok' = << [t EXCEPT !.inside = Append(@, char)] >>
                                 /\ i' = i + 1
                                 /\ pc' = pc
                            ELSE IF unstoppable(c)
                            THEN /\ i' = i + 1
                                 /\ UNCHANGED <<tok, pc>>
                            ELSE /\ pc' = "check"
                                 /\ UNCHANGED <<tok, i>>
    /\ UNCHANGED <<competences, options, input, comps, pattern, lastIndex, match,
                   last, yielded, warns, err>>
    /\ UNCHANGED notLex

strict == (options \div FailWhenUnmatch) % 2 = 1

\* The text the gap check looks at, trimmed.
between(l, t) == Slice(input, end(l), start(t) - 1)
trimmed(l, t) == Trim(between(l, t))

\* The gap check finds text between the last token and this one: throw.
GapError ==
    /\ pc = "check"
    /\ strict
    /\ last # <<>>
    /\ trimmed(last[1], tok[1]) # <<>>
    /\ pc' = "error"
    /\ err' = "gap"
    /\ UNCHANGED <<competences, options, input, comps, pattern, lastIndex, match,
                   tok, i, depth, last, yielded, warns>>
    /\ UNCHANGED notLex

\* The gap check passes or is not made: the token is yielded.
Yield ==
    /\ pc = "check"
    /\ ~(strict /\ last # <<>> /\ trimmed(last[1], tok[1]) # <<>>)
    /\ last' = IF strict THEN tok ELSE last
    /\ yielded' = Append(yielded, tok[1])
    /\ pc' = "yielded"
    /\ UNCHANGED <<competences, options, input, comps, pattern, lastIndex, match,
                   tok, i, depth, warns, err>>
    /\ UNCHANGED notLex

\* The consumer pulls again: pattern.lastIndex = token.end, then the loop's
\* next pattern.exec.
Resume ==
    /\ pc = "yielded"
    /\ lastIndex' = end(tok[1])
    /\ pc' = "exec"
    /\ UNCHANGED <<competences, options, input, comps, pattern, match, tok, i,
                   depth, last, yielded, warns, err>>
    /\ UNCHANGED notLex

\* The consumer pulls on a generator that returned or threw: { done: true },
\* none of the generator's code runs.
Finished ==
    /\ pc \in {"done", "error"}
    /\ lexPulls < MaxPulls
    /\ lexPulls' = lexPulls + 1
    /\ UNCHANGED <<competences, options, input, pc, comps, pattern, lastIndex,
                   match, tok, i, depth, last, yielded, warns, err>>
    /\ UNCHANGED notGen

----------------------------------------------------------------------------
(* JavaScript values, as far as Schema.compare tells them apart.  Every   *)
(* value is a record of one shape: k its kind, s its text (the string, the *)
(* number's literal, the class name), items the elements of an array or    *)
(* the properties [key, val] of an object, in insertion order.             *)

V(k, s, items) == [k |-> k, s |-> s, items |-> items]

Str(x) == V("string", x, <<>>)
Num(x) == V("number", x, <<>>)
Bool(x) == V("boolean", x, <<>>)
Null == V("null", "", <<>>)
Undef == V("undefined", "", <<>>)
Arr(items) == V("array", "", items)
Obj(cls, props) == V("object", cls, props)
Class(name) == V("function", name, <<>>)
Prop(key, val) == [key |-> key, val |-> val]

\* typeof
typeof(v) ==
    IF v.k \in {"null", "array", "object"} THEN "object" ELSE v.k

\* The classes: each with the class it extends ("" for Object).
\* Literal and Program are the test's node classes, Sub extends Literal,
\* Duck declares Node's members without extending it, Other declares none.
Classes == {"Object", "Node", "Literal", "Program", "Sub", "Duck", "Other",
            "String", "Number", "Boolean", "Array", "Function"}

Extends(cls) ==
    CASE cls = "Object" -> ""
      [] cls \in {"Literal", "Program"} -> "Node"
      [] cls = "Sub" -> "Literal"
      [] OTHER -> "Object"

\* The classes on the prototype chain of cls.prototype, cls itself excluded.
RECURSIVE Ancestors(_)
Ancestors(cls) ==
    IF Extends(cls) = "" THEN {} ELSE {Extends(cls)} \cup Ancestors(Extends(cls))

\* The members a class declares on its prototype.
Declared(cls) ==
    CASE cls \in {"Node", "Duck"} -> {"constructor", "clone", "serialize"}
      [] cls \in {"Literal", "Sub"} -> {"constructor", "serialize"}
      [] cls = "Program" -> {"constructor", "push", "serialize"}
      [] OTHER -> {"constructor"}

\* value.constructor, for a value that has properties
ConstructorOf(v) ==
    CASE v.k = "string" -> "String"
      [] v.k = "number" -> "Number"
      [] v.k = "boolean" -> "Boolean"
      [] v.k = "array" -> "Array"
      [] v.k = "function" -> "Function"
      [] OTHER -> v.s

\* value instanceof cls: only an object has a prototype chain.
InstanceOf(v, cls) ==
    /\ v.k \in {"array", "object", "function"}
    /\ cls \in {ConstructorOf(v)} \cup Ancestors(ConstructorOf(v))

\* key in value, and value[key], for a value with typeof "object"
OwnKeys(v) ==
    IF v.k = "object" THEN { v.items[n].key : n \in 1..Len(v.items) } ELSE {}
Inherited(v) ==
    UNION { Declared(c) : c \in {ConstructorOf(v)} \cup Ancestors(ConstructorOf(v)) }
In(key, v) ==
    \/ key \in OwnKeys(v)
    \/ key \in Inherited(v)
    \/ v.k = "array" /\ key = "length"
Get(v, key) ==
    IF key \in OwnKeys(v)
    THEN LET n == CHOOSE x \in 1..Len(v.items) :
                    /\ v.items[x].key = key
                    /\ \A y \in (x + 1)..Len(v.items) : v.items[y].key # key
         IN  v.items[n].val
    ELSE IF v.k = "array" /\ key = "length" THEN Num("length")
    ELSE Class(key)

----------------------------------------------------------------------------
(* common/classes.ts and Schema._compare.  A call returns "true" or       *)
(* "false", or is "throw" when it throws.                                  *)

\* Every class has a prototype object.
HasPrototype(cls) == cls \in Classes

\* isImplementing(target, base)
isImplementing(target, base) ==
    IF target = base \/ base \in Ancestors(target) THEN "true"
    ELSE IF HasPrototype(base) THEN "throw"
    ELSE "true"

\* isChild(child, base)
isChild(child, base) ==
    IF child = base \/ base \in Ancestors(child) THEN "true" ELSE "false"

\* a || b, where a and b are calls
OrElse(a, b) == IF a = "false" THEN b ELSE a

RECURSIVE _compare(_, _), EveryItem(_, _, _), SomeType(_, _, _), EveryKey(_, _, _)

\* schema.some trying the first type only.
SomeTypeFirstOnly(item, schema, n) ==
    IF n > Len(schema.items) THEN "false" ELSE _compare(item, schema.items[n])

\* for (const item of value): items n.. of the array value against schema
EveryItem(value, schema, n) ==
    IF n > Len(value.items) THEN "true"
    ELSE LET item == value.items[n]
             one == IF Len(schema.items) = 1
                    THEN _compare(item, schema.items[1])
                    ELSE SomeType(item, schema, 1)
         IN  IF one = "true" THEN EveryItem(value, schema, n + 1) ELSE one

\* schema.some((type) => this._compare(item, type)), from the n-th type on
SomeType(item, schema, n) ==
    IF n > Len(schema.items) THEN "false"
    ELSE OrElse(_compare(item, schema.items[n]), SomeType(item, schema, n + 1))

\* for (const key in schema): the properties n.. of the object schema
EveryKey(value, schema, n) ==
    IF n > Len(schema.items) THEN "true"
    ELSE LET key == schema.items[n].key
             one == IF ~In(key, value) THEN "false"
                    ELSE _compare(Get(value, key), schema.items[n].val)
         IN  IF one = "true" THEN EveryKey(value, schema, n + 1) ELSE one

\* _compare testing a string spec that is no kind name for equality with the
\* value.
_compareLiteralEquality(value, schema) ==
    IF typeof(schema) = "string"
    THEN IF typeof(value) = schema.s \/ value = schema THEN "true" ELSE "false"
    ELSE IF schema.k = "array"
    THEN IF value.k # "array" THEN "false" ELSE EveryItem(value, schema, 1)
    ELSE IF typeof(schema) = "object" /\ schema.k # "null"
    THEN IF typeof(value) # "object" \/ value.k = "null" THEN "false"
         ELSE EveryKey(value, schema, 1)
    ELSE IF typeof(schema) = "function"
    THEN IF InstanceOf(value, schema.s) THEN "true" ELSE "false"
    ELSE "false"

_compare(value, schema) ==
    IF typeof(schema) = "string"
    THEN IF typeof(value) = schema.s THEN "true" ELSE "false"
    ELSE IF schema.k = "array"
    THEN IF value.k # "array" THEN "false" ELSE EveryItem(value, schema, 1)
    ELSE IF typeof(schema) = "object" /\ schema.k # "null"
    THEN IF typeof(value) # "object" \/ value.k = "null" THEN "false"
         ELSE EveryKey(value, schema, 1)
    ELSE IF typeof(schema) = "function"
    THEN IF schema.s = "Node"
         THEN IF value.k \in {"null", "undefined"}
              THEN "throw"   \* .constructor of null or undefined
              ELSE OrElse(isImplementing(ConstructorOf(value), "Node"),
                          isChild(ConstructorOf(value), "Node"))
         ELSE IF InstanceOf(value, schema.s) THEN "true" ELSE "false"
    ELSE "false"

\* Schema.compare
compare(value, structure) == _compare(value, structure)

----------------------------------------------------------------------------
(* Schema.compare on bounded values and structures.                        *)

SeqsUpTo(S, n) == UNION { [1..m -> S] : m \in 0..n }

\* new cls(type, value): an instance with the own properties of a Node
Instance(cls, type, val) == Obj(cls, <<Prop("type", Str(type)), Prop("value", val)>>)

Instances ==
    { Instance("Node", "node", Str("x")), Instance("Literal", "literal", Str("x")),
      Instance("Sub", "literal", Str("x")), Instance("Program", "program", Arr(<<>>)),
      Instance("Duck", "duck", Str("x")), Obj("Other", <<>>) }

Items == { Str("x"), Num("1"), Null, Instance("Literal", "literal", Str("x")),
           Obj("Other", <<>>) }

Fields == { Str("x"), Str("hello"), Num("1") }

PlainObjects ==
    { Obj("Object", <<>>) }
    \cup { Obj("Object", <<Prop(key, v)>>) : key \in {"a", "b"}, v \in Fields }
    \cup { Obj("Object", <<Prop("a", v), Prop("b", w)>>) : v \in Fields, w \in Fields }

Values ==
    { Str("x"), Num("1"), Bool("true"), Null, Undef, Class("Node") }
    \cup Instances
    \cup { Arr(s) : s \in SeqsUpTo(Items, MaxItems) }
    \cup PlainObjects

Types == { Str("string"), Str("number"), Class("Node"), Class("Literal") }

FieldTypes == { Str("number"), Str("string"), Str("hello"), Arr(<<Str("number")>>) }

Structures ==
    { Str("string"), Str("number"), Str("boolean"), Str("object"),
      Str("undefined"), Str("function"), Str("hello") }
    \cup { Class("Node"), Class("Literal"), Class("Other") }
    \cup { Num("1"), Bool("true"), Null, Undef }
    \cup { Arr(s) : s \in SeqsUpTo(Types, MaxTypes) }
    \cup { Arr(<<Arr(<<t>>)>>) : t \in Types }
    \cup { Obj("Object", <<>>) }
    \cup { Obj("Object", <<Prop(key, t)>>) : key \in {"a", "b"}, t \in FieldTypes }
    \cup { Obj("Object", <<Prop("a", t), Prop("b", u)>>) :
             t \in FieldTypes, u \in FieldTypes }

SchInit ==
    /\ cmpValue \in Values \cup { Arr(<<Arr(<<v>>)>>) : v \in Items }
    /\ cmpStructure \in Structures
    /\ cmpResult = "none"

SchIdle ==
    /\ cmpValue = Undef
    /\ cmpStructure = Undef
    /\ cmpResult = "off"

\* schema.compare(value)
Compare ==
    /\ cmpResult = "none"
    /\ cmpResult' = compare(cmpValue, cmpStructure)
    /\ UNCHANGED <<cmpValue, cmpStructure>>
    /\ UNCHANGED notSch

----------------------------------------------------------------------------
(* The Registry.  Two nodes: n1 is a Literal (its serialize returns its    *)
(* value), n2 a plain Node of type "program" (serialize of the base class).*)

NodeIds == {"n1", "n2"}
Tags == {"literal", "program"}

NodeValues(n) ==
    IF n = "n1" THEN { Str("a"), Str("b"), Num("1") }
    ELSE { Arr(<<Instance("Literal", "literal", Str("a"))>>), Arr(<<Str("a")>>) }

NodeType(n) == IF n = "n1" THEN "literal" ELSE "program"

\* node.serialize()
NodeSerialize(n) ==
    IF n = "n1" THEN nodes[n].value.s ELSE "UNIMPLEMENTED"

\* the schemas of test/transpiler.test.ts
TestSchemas ==
    [t \in Tags |-> IF t = "literal" THEN Str("string")
                    ELSE Arr(<<Class("Node")>>)]

NoSchemas == [t \in {} |-> Undef]

Put(f, k, v) == [x \in DOMAIN f \cup {k} |-> IF x = k THEN v ELSE f[x]]
Drop(f, k) == [x \in DOMAIN f \ {k} |-> f[x]]

\* Registry.has / Registry.check
has(type) == type \in DOMAIN schemas
check(n) == has(nodes[n].type)

\* Registry.validate answering false for a type without schema.
validateLenient(n) ==
    IF ~has(nodes[n].type) THEN "false"
    ELSE compare(nodes[n].value, schemas[nodes[n].type])

\* Registry.validate: "true" or "false", "SchemaNotFoundError" when it
\* throws that, "throw" when compare throws.
validate(n) ==
    IF ~has(nodes[n].type) THEN "SchemaNotFoundError"
    ELSE compare(nodes[n].value, schemas[nodes[n].type])

\* Registry.batch
batch(ns) ==
    [k \in 1..Len(ns) |->
        IF validate(ns[k]) \in {"true", "false"} THEN "true" ELSE "false"]

\* What a serialization gives: the string, the cache afterwards and the
\* number of node.serialize() calls made.
Serialized(ret, cache, calls) == [ret |-> ret, cache |-> cache, calls |-> calls]

\* Registry.serialize without the look-up in the cache.
serializeAlways(n) ==
    Serialized(NodeSerialize(n), Put(serializations, n, NodeSerialize(n)), 1)

\* Registry.serialize
serialize(n) ==
    IF n \in DOMAIN serializations
    THEN Serialized(serializations[n], serializations, 0)
    ELSE Serialized(NodeSerialize(n), Put(serializations, n, NodeSerialize(n)), 1)

\* resolve's skip_cache branch storing what it serialized.
serializeSkippingCacheStores(n) ==
    Serialized(NodeSerialize(n), Put(serializations, n, NodeSerialize(n)), 1)

\* resolve's skip_cache branch: node.serialize()
serializeSkippingCache(n) == Serialized(NodeSerialize(n), serializations, 1)

Op(op, arg, skip, threw, ret, calls) ==
    [op |-> op, arg |-> arg, skip |-> skip, threw |-> threw, ret |-> ret,
     calls |-> calls]

NoOp == Op("none", <<>>, FALSE, "none", <<>>, 0)

RegInit ==
    /\ schemas \in {NoSchemas, TestSchemas}
    /\ serializations = [n \in {} |-> ""]
    /\ nodes \in { f \in [NodeIds -> [type : Tags, value : UNION { NodeValues(n) : n \in NodeIds }]] :
                     \A n \in NodeIds : /\ f[n].type = NodeType(n)
                                        /\ f[n].value \in NodeValues(n) }
    /\ lastOp = NoOp
    /\ misses = [n \in NodeIds |-> 0]
    /\ returned = [n \in NodeIds |-> {}]

RegIdle ==
    /\ schemas = NoSchemas
    /\ serializations = [n \in {} |-> ""]
    /\ nodes = [n \in {} |-> Undef]
    /\ lastOp = NoOp
    /\ misses = [n \in {} |-> 0]
    /\ returned = [n \in {} |-> {}]

\* registry.check(node)
Check(n) ==
    /\ lastOp' = Op("check", <<n>>, FALSE, "none",
                    <<IF check(n) THEN "true" ELSE "false">>, 0)
    /\ UNCHANGED <<schemas, serializations, nodes, misses, returned>>
    /\ UNCHANGED notReg

\* registry.validate(node)
Validate(n) ==
    /\ lastOp' = IF validate(n) \in {"true", "false"}
                 THEN Op("validate", <<n>>, FALSE, "none", <<validate(n)>>, 0)
                 ELSE Op("validate", <<n>>, FALSE, validate(n), <<>>, 0)
    /\ UNCHANGED <<schemas, serializations, nodes, misses, returned>>
    /\ UNCHANGED notReg

\* registry.batch(nodes)
Batch(ns) ==
    /\ lastOp' = Op("batch", ns, FALSE, "none", batch(ns), 0)
    /\ UNCHANGED <<schemas, serializations, nodes, misses, returned>>
    /\ UNCHANGED notReg

\* resolve looking the node up in the cache before it validates.
ResolveCacheFirst(n, skip) ==
    /\ IF (~skip /\ n \in DOMAIN serializations) \/ validate(n) = "true"
       THEN LET s == IF skip THEN serializeSkippingCache(n) ELSE serialize(n)
            IN  /\ lastOp' = Op("resolve", <<n>>, skip, "none", <<s.ret>>, s.calls)
                /\ serializations' = s.cache
                /\ misses' = IF skip THEN misses
                             ELSE [misses EXCEPT ![n] = @ + s.calls]
                /\ returned' = IF skip THEN returned
                               ELSE [returned EXCEPT ![n] = @ \cup {s.ret}]
                /\ UNCHANGED <<schemas, nodes>>
       ELSE /\ lastOp' = Op("resolve", <<n>>, skip,
                            IF validate(n) = "false" THEN "Error" ELSE validate(n),
                            <<>>, 0)
            /\ UNCHANGED <<schemas, serializations, nodes, misses, returned>>
    /\ UNCHANGED notReg

\* registry.resolve(node, skip_cache)
Resolve(n, skip) ==
    /\ IF validate(n) = "true"
       THEN LET s == IF skip THEN serializeSkippingCache(n) ELSE serialize(n)
            IN  /\ lastOp' = Op("resolve", <<n>>, skip, "none", <<s.ret>>, s.calls)
                /\ serializations' = s.cache
                /\ misses' = IF skip THEN misses
                             ELSE [misses EXCEPT ![n] = @ + s.calls]
                /\ returned' = IF skip THEN returned
                               ELSE [returned EXCEPT ![n] = @ \cup {s.ret}]
                /\ UNCHANGED <<schemas, nodes>>
       ELSE /\ lastOp' = Op("resolve", <<n>>, skip,
                            IF validate(n) = "false" THEN "Error" ELSE validate(n),
                            <<>>, 0)
            /\ UNCHANGED <<schemas, serializations, nodes, misses, returned>>
    /\ UNCHANGED notReg

\* registry.set(type, schema), inherited from Map
SetSchema(type, s) ==
    /\ schemas' = Put(schemas, type, s)
    /\ lastOp' = Op("set", <<type>>, FALSE, "none", <<>>, 0)
    /\ UNCHANGED <<serializations, nodes, misses, returned>>
    /\ UNCHANGED notReg

\* registry.delete(type), inherited from Map
DeleteSchema(type) ==
    /\ schemas' = Drop(schemas, type)
    /\ lastOp' = Op("delete", <<type>>, FALSE, "none",
                    <<IF has(type) THEN "true" ELSE "false">>, 0)
    /\ UNCHANGED <<serializations, nodes, misses, returned>>
    /\ UNCHANGED notReg

\* registry.clear(), inherited from Map
ClearSchemas ==
    /\ schemas' = NoSchemas
    /\ lastOp' = Op("clear", <<>>, FALSE, "none", <<>>, 0)
    /\ UNCHANGED <<serializations, nodes, misses, returned>>
    /\ UNCHANGED notReg

\* The owner of a node changes what its value holds.
Mutate(n, v) ==
    /\ v # nodes[n].value
    /\ nodes' = [nodes EXCEPT ![n].value = v]
    /\ lastOp' = Op("mutate", <<n>>, FALSE, "none", <<>>, 0)
    /\ UNCHANGED <<schemas, serializations, misses, returned>>
    /\ UNCHANGED notReg

----------------------------------------------------------------------------
(* The transpiler: declare and undeclare on the Lexer's live competence    *)
(* map, around a tokenize generator.                                       *)

\* A second competence under the identifier of CLiteral.
CLiteralX == Competence("test:literal", <<"x">>, {"("}, {")"}, Undefined, 0)

\* The competences handed to declare and the identifiers handed to undeclare.
Declarable == {CLiteral, CLiteralX, CBlock, CBroken}
Identifiers == { c.identifier : c \in Declarable }

\* Map.has and the position of a key in the map's insertion order
IndexOf(cs, id) ==
    IF \E k \in 1..Len(cs) : cs[k].identifier = id
    THEN CHOOSE k \in 1..Len(cs) : cs[k].identifier = id
    ELSE 0

\* Map.set leaving the entry of a present key as it is.
MapSetIfAbsent(cs, c) ==
    IF IndexOf(cs, c.identifier) # 0 THEN cs ELSE Append(cs, c)

\* Map.set taking a present key out and putting it last.
MapSetMovesLast(cs, c) ==
    Append(SelectSeq(cs, LAMBDA e : e.identifier # c.identifier), c)

\* Map.set: a present key keeps its position, a new key goes last.
MapSet(cs, c) ==
    IF IndexOf(cs, c.identifier) # 0
    THEN [cs EXCEPT ![IndexOf(cs, c.identifier)] = c]
    ELSE Append(cs, c)

\* Map.delete
RECURSIVE MapDelete(_, _)
MapDelete(cs, id) ==
    IF cs = <<>> THEN <<>>
    ELSE IF Head(cs).identifier = id THEN Tail(cs)
    ELSE <<Head(cs)>> \o MapDelete(Tail(cs), id)

\* BaseTranspiler.declare(...list): the map and the warnings afterwards
RECURSIVE declare(_, _, _)
declare(cs, list, w) ==
    IF list = <<>> THEN [map |-> cs, warns |-> w]
    ELSE declare(MapSet(cs, Head(list)), Tail(list),
                 IF IndexOf(cs, Head(list).identifier) # 0 THEN w + 1 ELSE w)

\* BaseTranspiler.undeclare(...ids): the map and the warnings afterwards
RECURSIVE undeclare(_, _, _)
undeclare(cs, ids, w) ==
    IF ids = <<>> THEN [map |-> cs, warns |-> w]
    ELSE undeclare(MapDelete(cs, Head(ids)), Tail(ids),
                   IF IndexOf(cs, Head(ids)) = 0 THEN w + 1 ELSE w)

\* The inputs of the transpiler's tokenize: "x", "literal(x)", "x(x)",
\* "{x}", "[x" and "literal(x) {x}".
TrInputs ==
    { <<"x">>, Literal \o <<"(", "x", ")">>, <<"x", "(", "x", ")">>,
      <<"{", "x", "}">>, <<"[", "x">>,
      Literal \o <<"(", "x", ")", " ", "{", "x", "}">> }

\* new TRS(): a Lexer constructed without competences; tokenize not called.
TrInit ==
    /\ competences = <<>>
    /\ options \in {0, FailWhenUnmatch}
    /\ input \in TrInputs
    /\ pc = "off"
    /\ comps = <<>>
    /\ pattern = <<>>
    /\ lastIndex = 0
    /\ match = <<>>
    /\ tok = <<>>
    /\ i = 0
    /\ depth = 0
    /\ last = <<>>
    /\ yielded = <<>>
    /\ warns = 0
    /\ err = "none"
    /\ lexPulls = 0
    /\ declared = 0
    /\ trWarns = 0
    /\ trOp = [op |-> "none", args |-> <<>>]

TrIdle ==
    /\ declared = 0
    /\ trWarns = 0
    /\ trOp = [op |-> "none", args |-> <<>>]

\* declare with a running tokenize generator reading the live map: its
\* competences and its pattern follow the call.
DeclareLive(list) ==
    /\ declared < MaxDeclares
    /\ declared' = declared + 1
    /\ competences' = declare(competences, list, 0).map
    /\ trWarns' = trWarns + declare(competences, list, 0).warns
    /\ trOp' = [op |-> "declare", args |-> list]
    /\ comps' = IF pc \in {"off", "idle"} THEN comps ELSE competences'
    /\ pattern' = IF pc \in {"off", "idle"} THEN pattern
                  ELSE createPattern(competences')
    /\ UNCHANGED <<options, input, pc, lastIndex, match, tok, i,
                   depth, last, yielded, warns, err>>
    /\ UNCHANGED notLexTr

\* transpiler.declare(...list)
Declare(list) ==
    /\ declared < MaxDeclares
    /\ declared' = declared + 1
    /\ competences' = declare(competences, list, 0).map
    /\ trWarns' = trWarns + declare(competences, list, 0).warns
    /\ trOp' = [op |-> "declare", args |-> list]
    /\ UNCHANGED <<options, input, pc, comps, pattern, lastIndex, match, tok, i,
                   depth, last, yielded, warns, err>>
    /\ UNCHANGED notLexTr

\* transpiler.undeclare(...ids)
Undeclare(ids) ==
    /\ declared < MaxDeclares
    /\ declared' = declared + 1
    /\ competences' = undeclare(competences, ids, 0).map
    /\ trWarns' = trWarns + undeclare(competences, ids, 0).warns
    /\ trOp' = [op |-> "undeclare", args |-> ids]
    /\ UNCHANGED <<options, input, pc, comps, pattern, lastIndex, match, tok, i,
                   depth, last, yielded, warns, err>>
    /\ UNCHANGED notLexTr

\* lexer.tokenize(input): the generator is made, none of its code has run.
Tokenize ==
    /\ pc = "off"
    /\ pc' = "idle"
    /\ UNCHANGED <<competences, options, input, comps, pattern, lastIndex, match,
                   tok, i, depth, last, yielded, warns, err>>
    /\ UNCHANGED notLex

----------------------------------------------------------------------------
(* BaseTranspiler.parse.  A token is named by its position in the stream;  *)
(* a list a competence may leave out is <<>> when absent and <<list>> when *)
(* given.                                                                  *)

Eater(id, eatBefore, eatAfter) ==
    [identifier |-> id, before |-> eatBefore, after |-> eatAfter]

\* The competences of the stream's tokens: a without eaters; b eats an a
\* before; c eats an a after; d eats a b and then an a before; e eats an a and
\* a c after, its before list given and empty; f eats a c before and a b
\* after.
EA == Eater("a", <<>>, <<>>)
EB == Eater("b", << <<"a">> >>, <<>>)
EC == Eater("c", <<>>, << <<"a">> >>)
ED == Eater("d", << <<"b", "a">> >>, <<>>)
EE == Eater("e", << <<>> >>, << <<"a", "c">> >>)
EF == Eater("f", << <<"c">> >>, << <<"b">> >>)
Eaters == {EA, EB, EC, ED, EE, EF}

\* What Logger.throw was called with: which check failed, the token the
\* message is about (0 when none) and whether the message carries that
\* token's line and column.
ParseError(kind, token, located) == [kind |-> kind, token |-> token, located |-> located]
NoError == ParseError("none", 0, FALSE)

\* What a handler leaves behind: the error thrown (NoError when it returns),
\* the result list, the eaten tokens and the number of tokens pulled.
Handled(threw, res, eaten, n) == [threw |-> threw, result |-> res, eaten |-> eaten, pulled |-> n]

\* _handleBefore reading the previous tokens without taking them off result.
RECURSIVE _handleBeforeKeeping(_, _, _, _, _)
_handleBeforeKeeping(before, n, res, eaten, token) ==
    IF n > Len(before) THEN Handled(NoError, res, eaten, 0)
    ELSE IF Len(res) < n
    THEN Handled(ParseError("illegal", token, TRUE), res, eaten, 0)
    ELSE LET prev == res[Len(res) - n + 1]
         IN  IF stream[prev].identifier = before[n]
             THEN _handleBeforeKeeping(before, n + 1, res, Append(eaten, prev), token)
             ELSE Handled(ParseError("unexpected", prev, FALSE), res, eaten, 0)

\* _handleBefore(before, result, token): the expected identifiers from the
\* n-th on, res the result list and eaten the token's eated.before so far.
RECURSIVE _handleBefore(_, _, _, _, _)
_handleBefore(before, n, res, eaten, token) ==
    IF n > Len(before) THEN Handled(NoError, res, eaten, 0)
    ELSE IF res = <<>>
    THEN Handled(ParseError("illegal", token, TRUE), res, eaten, 0)
    ELSE LET prev == res[Len(res)]
             popped == SubSeq(res, 1, Len(res) - 1)
         IN  IF stream[prev].identifier = before[n]
             THEN _handleBefore(before, n + 1, popped, Append(eaten, prev), token)
             ELSE Handled(ParseError("unexpected", prev, FALSE), popped, eaten, 0)

\* _handleAfter eating whatever comes next, without comparing identifiers.
RECURSIVE _handleAfterAny(_, _, _, _, _)
_handleAfterAny(after_, n, taken, eaten, token) ==
    IF n > Len(after_) THEN Handled(NoError, <<>>, eaten, taken)
    ELSE IF taken >= Len(stream)
    THEN Handled(ParseError("end", 0, FALSE), <<>>, eaten, taken)
    ELSE _handleAfterAny(after_, n + 1, taken + 1, Append(eaten, taken + 1), token)

\* _handleAfter(after, tokens, token): the expected identifiers from the n-th
\* on, taken the number of tokens pulled from the iterator so far.
RECURSIVE _handleAfter(_, _, _, _, _)
_handleAfter(after_, n, taken, eaten, token) ==
    IF n > Len(after_) THEN Handled(NoError, <<>>, eaten, taken)
    ELSE IF taken >= Len(stream)
    THEN Handled(ParseError("end", 0, FALSE), <<>>, eaten, taken)
    ELSE LET next == taken + 1
         IN  IF stream[next].identifier = after_[n]
             THEN _handleAfter(after_, n + 1, next, Append(eaten, next), token)
             ELSE Handled(ParseError("unexpected", next, TRUE), <<>>, eaten, next)

\* tokens.next(): the position of the token it gives, 0 when done
NextToken(taken) == IF taken < Len(stream) THEN taken + 1 ELSE 0

ParIdle ==
    /\ stream = <<>>
    /\ pulled = 0
    /\ current = 0
    /\ result = <<>>
    /\ eated = <<>>
    /\ parsePc = "off"
    /\ parseErr = NoError

\* A stream of fresh tokens: nothing eaten yet.
ParInit ==
    /\ stream \in UNION { [1..n -> Eaters] : n \in 0..MaxStream }
    /\ pulled = 0
    /\ current = 0
    /\ result = <<>>
    /\ eated = [k \in 1..Len(stream) |-> [before |-> <<>>, after |-> <<>>]]
    /\ parsePc = "ready"
    /\ parseErr = NoError

\* parse(tokens) up to its loop: the first tokens.next()
ParseEnter ==
    /\ parsePc = "ready"
    /\ current' = NextToken(pulled)
    /\ pulled' = Min(pulled + 1, Len(stream))
    /\ parsePc' = "loop"
    /\ UNCHANGED <<stream, result, eated, parseErr>>
    /\ UNCHANGED notPar

\* One round of parse's loop: the eaters of the current token, then the
\* push and the next tokens.next(), unless a handler threw.
ParseToken ==
    /\ parsePc = "loop"
    /\ current # 0
    /\ LET c == stream[current]
           b == IF c.before # <<>>
                THEN _handleBefore(c.before[1], 1, result, eated[current].before, current)
                ELSE Handled(NoError, result, eated[current].before, 0)
           a == IF b.threw = NoError /\ c.after # <<>>
                THEN _handleAfter(c.after[1], 1, pulled, eated[current].after, current)
                ELSE Handled(NoError, <<>>, eated[current].after, pulled)
       IN  /\ eated' = [eated EXCEPT ![current] = [before |-> b.eaten, after |-> a.eaten]]
           /\ IF b.threw # NoError
              THEN /\ parsePc' = "threw"
                   /\ parseErr' = b.threw
                   /\ result' = b.result
                   /\ UNCHANGED <<pulled, current>>
              ELSE IF a.threw # NoError
              THEN /\ parsePc' = "threw"
                   /\ parseErr' = a.threw
                   /\ result' = b.result
                   /\ pulled' = a.pulled
                   /\ UNCHANGED current
              ELSE /\ result' = Append(b.result, current)
                   /\ current' = NextToken(a.pulled)
                   /\ pulled' = Min(a.pulled + 1, Len(stream))
                   /\ UNCHANGED <<parsePc, parseErr>>
    /\ UNCHANGED stream
    /\ UNCHANGED notPar

\* The iterator is done: parse returns result.
ParseReturn ==
    /\ parsePc = "loop"
    /\ current = 0
    /\ parsePc' = "returned"
    /\ UNCHANGED <<stream, pulled, current, result, eated, parseErr>>
    /\ UNCHANGED notPar

----------------------------------------------------------------------------
(* BaseTranspiler.nodify and BaseTranspiler.synthesize.  A token is named  *)
(* by what its competence's resolve gives: one of the nodes, or "bad" when *)
(* resolve throws.                                                         *)

Resolvable == NodeIds \cup {"bad"}

\* What a call gives: the value returned (<<>> when it threw) and the error
\* thrown ("none" when it returned).
Outcome(ret, threw) == [ret |-> ret, threw |-> threw]

\* nodify without the validation: the resolved node is returned as it is.
nodifyUnchecked(t) ==
    IF t = "bad" THEN Outcome(<<>>, "ResolveError") ELSE Outcome(<<t>>, "none")

\* BaseTranspiler.nodify(token)
nodify(t) ==
    IF t = "bad" THEN Outcome(<<>>, "ResolveError")
    ELSE IF validate(t) = "true" THEN Outcome(<<t>>, "none")
    ELSE IF validate(t) = "false" THEN Outcome(<<>>, "Error")
    ELSE Outcome(<<>>, validate(t))

\* The message of synthesize's Logger.throw: the token's total, line and
\* column.
LogEntry(k) == ParseError("processing", k, TRUE)

\* synthesize's catch block going on with the loop after logging.
synthesizeCatchResumes(k) == [pc |-> "suspended", log |-> Append(synLog, LogEntry(k))]

\* synthesize's catch block for the k-th token: Logger.throw logs and
\* throws, which ends the generator.
synthesizeCatch(k) == [pc |-> "threw", log |-> Append(synLog, LogEntry(k))]

SynIdle ==
    /\ synTokens = <<>>
    /\ synPos = 0
    /\ synOut = <<>>
    /\ synPc = "off"
    /\ synErr = "none"
    /\ synLog = <<>>
    /\ synPulls = 0

\* synthesize(tokens) was called, nothing was pulled yet.
SynInit ==
    /\ synTokens \in UNION { [1..n -> Resolvable] : n \in 0..MaxTokens }
    /\ synPos = 0
    /\ synOut = <<>>
    /\ synPc = "ready"
    /\ synErr = "none"
    /\ synLog = <<>>
    /\ synPulls = 0

\* A pull on the running generator with a token left: nodify, then the
\* yield or the catch block.  From the catch block's second round on (which
\* only a catch block that did not throw reaches) the loop goes on by itself.
SynthesizeToken ==
    /\ synPc \in {"ready", "suspended"}
    /\ synPos < Len(synTokens)
    /\ LET k == synPos + 1
           n == nodify(synTokens[k])
       IN  /\ synPos' = k
           /\ IF n.threw = "none"
              THEN /\ synOut' = Append(synOut, n.ret[1])
                   /\ synPc' = "suspended"
                   /\ UNCHANGED <<synErr, synLog>>
              ELSE /\ synErr' = n.threw
                   /\ synPc' = synthesizeCatch(k).pc
                   /\ synLog' = synthesizeCatch(k).log
                   /\ UNCHANGED synOut
    /\ UNCHANGED <<synTokens, synPulls>>
    /\ UNCHANGED notSyn

\* A pull on the running generator with no token left: it returns.
SynthesizeEnd ==
    /\ synPc \in {"ready", "suspended"}
    /\ synPos = Len(synTokens)
    /\ synPc' = "done"
    /\ UNCHANGED <<synTokens, synPos, synOut, synErr, synLog, synPulls>>
    /\ UNCHANGED notSyn

\* A pull on a generator that returned or threw: { done: true }.
SynthesizeFinished ==
    /\ synPc \in {"done", "threw"}
    /\ synPulls < MaxPulls
    /\ synPulls' = synPulls + 1
    /\ UNCHANGED <<synTokens, synPos, synOut, synPc, synErr, synLog>>
    /\ UNCHANGED notSyn

----------------------------------------------------------------------------
(* Node objects and Node.clone.  The value of a Node is a primitive or a   *)
(* reference to an array in memory; a reference is copied, not the array.  *)

Primitive(x) == [kind |-> "primitive", at |-> 0, s |-> x]
Reference(k) == [kind |-> "reference", at |-> k, s |-> ""]

\* new cls(type, value)
NewNode(cls, type, value) == [cls |-> cls, type |-> type, value |-> value]

\* What node.value reads: the primitive, or the array the reference leads to.
ValueOf(o) == IF o.value.kind = "reference" THEN cells[o.value.at] ELSE <<o.value.s>>

\* The elements pushed onto an array.
Elements == {"a", "b"}

\* Node.clone: new Node(this.type, this.value)
clone(o) == [node |-> NewNode("Node", o.type, o.value), cells |-> cells]

NodIdle ==
    /\ cells = <<>>
    /\ objs = <<>>
    /\ origin = <<>>
    /\ nodOp = [op |-> "none", node |-> 0]

\* Two Program nodes, each with an array of its own, and a Literal.
NodInit ==
    /\ cells \in [1..2 -> UNION { [1..n -> Elements] : n \in 0..1 }]
    /\ objs = << NewNode("Program", "program", Reference(1)),
                 NewNode("Program", "program", Reference(2)),
                 NewNode("Literal", "literal", Primitive("a")) >>
    /\ origin = <<0, 0, 0>>
    /\ nodOp = [op |-> "none", node |-> 0]

\* objs[n].clone()
NodeClone(n) ==
    /\ n <= Len(objs)
    /\ Len(objs) < MaxObjects
    /\ objs' = Append(objs, clone(objs[n]).node)
    /\ cells' = clone(objs[n]).cells
    /\ origin' = Append(origin, n)
    /\ nodOp' = [op |-> "clone", node |-> n]
    /\ UNCHANGED notNod

\* objs[n].value.push(x): the array the value refers to grows.
NodePush(n, x) ==
    /\ n <= Len(objs)
    /\ objs[n].value.kind = "reference"
    /\ Len(cells[objs[n].value.at]) < MaxLength
    /\ cells' = [cells EXCEPT ![objs[n].value.at] = Append(@, x)]
    /\ nodOp' = [op |-> "push", node |-> n]
    /\ UNCHANGED <<objs, origin>>
    /\ UNCHANGED notNod

----------------------------------------------------------------------------
(* BaseCompetence.splitByDelimiter.                                        *)

\* The longest `inside` handed to splitByDelimiter.
MaxInside == 4

\* The default of the `delimiter` parameter.
Delimiter == ";"

\* The competences splitByDelimiter is called on: one with opener and closer
\* patterns, one without.
SplitCompetences == {CBlock, CBroken}

SplitChars == {Delimiter, "{", "}", "x"}
SplitInputs == UNION { [1..n -> SplitChars] : n \in 0..MaxInside }

SpIdle ==
    /\ spCompetence = CBroken
    /\ spInside = <<>>
    /\ spCurrent = <<>>
    /\ spIndex = 0
    /\ spDepth = 0
    /\ spYielded = <<>>
    /\ spPc = "off"

\* let current = ""; let index = 0; let depth = 0;
SpInit ==
    /\ spCompetence \in SplitCompetences
    /\ spInside \in SplitInputs
    /\ spCurrent = <<>>
    /\ spIndex = 0
    /\ spDepth = 0
    /\ spYielded = <<>>
    /\ spPc = "loop"

\* inside.charAt(index), read before index++
spChar == spInside[spIndex + 1]

\* while (index < inside.length)
Splitting == spPc = "loop" /\ spIndex < Len(spInside)

\* char === delimiter && depth === 0: yield current; current = ""
SplitYield ==
    /\ Splitting
    /\ spChar = Delimiter /\ spDepth = 0
    /\ spYielded' = Append(spYielded, spCurrent)
    /\ spCurrent' = <<>>
    /\ spIndex' = spIndex + 1
    /\ UNCHANGED <<spCompetence, spInside, spDepth, spPc>>
    /\ UNCHANGED notSp

\* this.patterns.opener?.test(char): current += char; depth++
SplitOpener ==
    /\ Splitting
    /\ ~(spChar = Delimiter /\ spDepth = 0)
    /\ Test(spCompetence.opener, spChar)
    /\ spCurrent' = Append(spCurrent, spChar)
    /\ spDepth' = spDepth + 1
    /\ spIndex' = spIndex + 1
    /\ UNCHANGED <<spCompetence, spInside, spYielded, spPc>>
    /\ UNCHANGED notSp

\* this.patterns.closer?.test(char): current += char; depth--
SplitCloser ==
    /\ Splitting
    /\ ~(spChar = Delimiter /\ spDepth = 0)
    /\ ~Test(spCompetence.opener, spChar)
    /\ Test(spCompetence.closer, spChar)
    /\ spCurrent' = Append(spCurrent, spChar)
    /\ spDepth' = spDepth - 1
    /\ spIndex' = spIndex + 1
    /\ UNCHANGED <<spCompetence, spInside, spYielded, spPc>>
    /\ UNCHANGED notSp

\* else: current += char
SplitKeep ==
    /\ Splitting
    /\ ~(spChar = Delimiter /\ spDepth = 0)
    /\ ~Test(spCompetence.opener, spChar)
    /\ ~Test(spCompetence.closer, spChar)
    /\ spCurrent' = Append(spCurrent, spChar)
    /\ spIndex' = spIndex + 1
    /\ UNCHANGED <<spCompetence, spInside, spDepth, spYielded, spPc>>
    /\ UNCHANGED notSp

\* after the loop: if (current) { yield current; }
SplitRest ==
    /\ spPc = "loop" /\ spIndex >= Len(spInside)
    /\ spCurrent # <<>>
    /\ spYielded' = Append(spYielded, spCurrent)
    /\ spPc' = "done"
    /\ UNCHANGED <<spCompetence, spInside, spCurrent, spIndex, spDepth>>
    /\ UNCHANGED notSp

\* after the loop, current empty: the generator returns
SplitReturn ==
    /\ spPc = "loop" /\ spIndex >= Len(spInside)
    /\ spCurrent = <<>>
    /\ spPc' = "done"
    /\ UNCHANGED <<spCompetence, spInside, spCurrent, spIndex, spDepth, spYielded>>
    /\ UNCHANGED notSp

----------------------------------------------------------------------------
(* The specifications.                                                     *)

\* The Lexer: one tokenize generator pulled to its end.
Init ==
    LexInit /\ SchIdle /\ RegIdle /\ TrIdle /\ ParIdle /\ SynIdle /\ NodIdle /\ SpIdle

Next ==
    \/ Start
    \/ ExecNull
    \/ ExecMatch
    \/ Skip
    \/ Construct
    \/ Extract
    \/ GapError
    \/ Yield
    \/ Resume
    \/ Finished

Spec == Init /\ [][Next]_vars

\* The consumer keeps pulling and the generator's code runs on: a step that
\* can be taken is taken.
FairSpec == Spec /\ WF_vars(Next)

\* One call of Schema.compare.
SchemaInit ==
    SchInit /\ LexIdle /\ RegIdle /\ TrIdle /\ ParIdle /\ SynIdle /\ NodIdle /\ SpIdle
SchemaNext == Compare
SchemaSpec == SchemaInit /\ [][SchemaNext]_vars

\* A Registry and the calls made on it, in any order.
RegistryInit ==
    RegInit /\ LexIdle /\ SchIdle /\ TrIdle /\ ParIdle /\ SynIdle /\ NodIdle /\ SpIdle
RegistryNext ==
    \/ \E n \in NodeIds : Check(n)
    \/ \E n \in NodeIds : Validate(n)
    \/ \E ns \in SeqsUpTo(NodeIds, MaxBatch) : Batch(ns)
    \/ \E n \in NodeIds, skip \in BOOLEAN : Resolve(n, skip)
    \/ \E type \in Tags, s \in {Str("string"), Arr(<<Class("Node")>>)} :
          SetSchema(type, s)
    \/ \E type \in Tags : DeleteSchema(type)
    \/ ClearSchemas
    \/ \E n \in NodeIds : \E v \in NodeValues(n) : Mutate(n, v)
RegistrySpec == RegistryInit /\ [][RegistryNext]_vars

\* A transpiler: competences are declared and undeclared before, between and
\* after the steps of one tokenize generator.
TranspilerInit ==
    TrInit /\ SchIdle /\ RegIdle /\ ParIdle /\ SynIdle /\ NodIdle /\ SpIdle
TranspilerNext ==
    \/ \E list \in SeqsUpTo(Declarable, MaxArgs) \ {<<>>} : Declare(list)
    \/ \E ids \in SeqsUpTo(Identifiers, MaxArgs) \ {<<>>} : Undeclare(ids)
    \/ Tokenize
    \/ Start
    \/ ExecNull
    \/ ExecMatch
    \/ Skip
    \/ Construct
    \/ Extract
    \/ GapError
    \/ Yield
    \/ Resume
    \/ Finished
TranspilerSpec == TranspilerInit /\ [][TranspilerNext]_vars

\* One call of parse on a token stream.
ParseInit ==
    ParInit /\ LexIdle /\ SchIdle /\ RegIdle /\ TrIdle /\ SynIdle /\ NodIdle /\ SpIdle
ParseNext ==
    \/ ParseEnter
    \/ ParseToken
    \/ ParseReturn
ParseSpec == ParseInit /\ [][ParseNext]_vars

\* One synthesize generator over a registry whose schemas and nodes change
\* between the pulls.
SynthesizeInit ==
    SynInit /\ RegInit /\ LexIdle /\ SchIdle /\ TrIdle /\ ParIdle /\ NodIdle /\ SpIdle
SynthesizeNext ==
    \/ SynthesizeToken
    \/ SynthesizeEnd
    \/ SynthesizeFinished
    \/ \E type \in Tags : DeleteSchema(type)
    \/ \E n \in NodeIds : \E v \in NodeValues(n) : Mutate(n, v)
SynthesizeSpec == SynthesizeInit /\ [][SynthesizeNext]_vars

\* Node objects, cloned and changed through their values.
NodeInit ==
    NodInit /\ LexIdle /\ SchIdle /\ RegIdle /\ TrIdle /\ ParIdle /\ SynIdle /\ SpIdle
NodeNext ==
    \/ \E n \in 1..MaxObjects : NodeClone(n)
    \/ \E n \in 1..MaxObjects : \E x \in Elements : NodePush(n, x)
NodeSpec == NodeInit /\ [][NodeNext]_vars

\* splitByDelimiter: one generator pulled to its end.
SplitInit ==
    SpInit /\ LexIdle /\ SchIdle /\ RegIdle /\ TrIdle /\ ParIdle /\ SynIdle /\ NodIdle
SplitNext ==
    \/ SplitYield
    \/ SplitOpener
    \/ SplitCloser
    \/ SplitKeep
    \/ SplitRest
    \/ SplitReturn
SplitSpec == SplitInit /\ [][SplitNext]_vars

----------------------------------------------------------------------------
(* The properties.                                                         *)

\* s holds only characters String.prototype.trim removes
Blank(s) == \A k \in 1..Len(s) : s[k] \in WhiteSpace

\* the parentheses of s are balanced: none closes what was not opened, and
\* none stays open
RECURSIVE Open(_, _)
Open(s, n) ==
    IF s = <<>> THEN n
    ELSE IF n < 0 THEN n
    ELSE Open(Tail(s), IF Head(s) = "(" THEN n + 1
                       ELSE IF Head(s) = ")" THEN n - 1 ELSE n)
Balanced(s) == Open(s, 0) = 0

\* C1: with no competence registered, tokenize terminates on every input
\* (the empty string included) and yields no token.
C1_TerminatesWithoutToken ==
    (pc = "idle" /\ competences = <<>>) ~> (pc = "done" /\ yielded = <<>>)

\* C2: in strict mode (FailWhenUnmatch) no two tokens are yielded one after
\* the other with a non-whitespace character anywhere between the end of the
\* first and the start of the second: such a pair ends in the gap error and
\* the second token is not yielded.
C2_StrictRejectsEveryGap ==
    strict =>
        \A k \in 1..(Len(yielded) - 1) :
            Blank(Slice(input, end(yielded[k]), start(yielded[k + 1])))

\* C3: batch returns one boolean per node, in order, never throws, and the
\* k-th boolean is what validate returns for the k-th node, false when
\* validate throws.
C3_BatchAgreesWithValidate ==
    lastOp.op = "batch" =>
        /\ lastOp.threw = "none"
        /\ Len(lastOp.ret) = Len(lastOp.arg)
        /\ \A k \in 1..Len(lastOp.arg) :
              lastOp.ret[k] = IF validate(lastOp.arg[k]) = "true" THEN "true"
                              ELSE "false"

\* C4: Schema.compare returns a boolean and never throws, whatever the value
\* and the structure.
C4_CompareNeverThrows == cmpResult \in {"none", "true", "false"}

\* The class declares every member the base Node class declares.
Conforms(cls) == Declared("Node") \subseteq Declared(cls)

\* C5: against the base Node class, compare accepts a value whose class is
\* Node, a direct or transitive subclass of Node, or a class that declares
\* Node's members, and returns false for every other value.
C5_NodeStructureAccepts ==
    (cmpStructure = Class("Node") /\ cmpResult # "none") =>
        cmpResult =
            IF /\ cmpValue.k = "object"
               /\ \/ cmpValue.s = "Node"
                  \/ "Node" \in Ancestors(cmpValue.s)
                  \/ Conforms(cmpValue.s)
            THEN "true" ELSE "false"

\* C6: over the resolve calls without skip_cache a node's serialize is
\* invoked at most once and they all return one string; a resolve with
\* skip_cache that returns invoked serialize exactly once.
C6_SerializeOnceSameString ==
    /\ \A n \in NodeIds : misses[n] <= 1 /\ Cardinality(returned[n]) <= 1
    /\ (lastOp.op = "resolve" /\ lastOp.skip /\ lastOp.threw = "none") =>
          lastOp.calls = 1

\* A resolve without skip_cache was served from the cache, after resolves
\* of the same node with and without skip_cache.
C6_Witness ==
    /\ lastOp.op = "resolve" /\ ~lastOp.skip /\ lastOp.threw = "none"
    /\ lastOp.calls = 0
    /\ misses[lastOp.arg[1]] = 1
    /\ returned[lastOp.arg[1]] = {lastOp.ret[1]}

\* C7: a cache entry, once made, is never removed or changed by any Registry
\* operation; resolve with skip_cache returns the node's current
\* serialization and leaves the cache as it is; resolve without skip_cache
\* returns the cached string of a cached node.
C7_CacheEntriesNeverChange ==
    [][ /\ \A n \in DOMAIN serializations :
              /\ n \in DOMAIN serializations'
              /\ serializations'[n] = serializations[n]
        /\ (lastOp'.op = "resolve" /\ lastOp'.skip) =>
              /\ serializations' = serializations
              /\ lastOp'.threw = "none" =>
                    lastOp'.ret = <<NodeSerialize(lastOp'.arg[1])>>
        /\ (/\ lastOp'.op = "resolve" /\ ~lastOp'.skip /\ lastOp'.threw = "none"
            /\ lastOp'.arg[1] \in DOMAIN serializations) =>
              lastOp'.ret = <<serializations[lastOp'.arg[1]]>>
      ]_vars

\* A resolve without skip_cache returned the cached string of a node whose
\* serialize gives another string by now.
C7_Witness ==
    /\ lastOp.op = "resolve" /\ ~lastOp.skip /\ lastOp.threw = "none"
    /\ lastOp.arg[1] \in DOMAIN serializations
    /\ lastOp.ret = <<serializations[lastOp.arg[1]]>>
    /\ serializations[lastOp.arg[1]] # NodeSerialize(lastOp.arg[1])

\* The input is `literal(s)` with the parentheses of s balanced.
IsLiteralCall(s) ==
    /\ Len(s) >= Len(Literal) + 2
    /\ SubSeq(s, 1, Len(Literal) + 1) = Literal \o <<"(">>
    /\ s[Len(s)] = ")"
    /\ Balanced(SubSeq(s, Len(Literal) + 2, Len(s) - 1))
Argument(s) == SubSeq(s, Len(Literal) + 2, Len(s) - 1)

\* C8: with the competence literal( ... ) alone, tokenizing `literal(s)` for
\* a balanced, possibly empty s yields exactly one token, with inside = s and
\* total = `literal(s)`.
C8_LiteralCallIsOneToken ==
    (comps = <<CLiteral>> /\ pc = "done" /\ IsLiteralCall(input)) =>
        /\ Len(yielded) = 1
        /\ yielded[1].insideSet
        /\ yielded[1].inside = Argument(input)
        /\ total(yielded[1]) = input

\* C9: under DIRECT_ENTRY no opener character is consumed and the character
\* right after the foremost match is the first character of inside (when it
\* is not the closer and no inside pattern rejects it); `{ a { b } c }` under
\* the block competence gives inside " a { b } c ".
C9_DirectEntryKeepsFirstChar ==
    /\ \A k \in 1..Len(yielded) :
          LET t == yielded[k]
              c == t.competence
          IN  (forced(c) /\ t.insideSet) =>
                /\ t.opener = <<>>
                /\ (c.inside = Undefined /\ ~Test(c.closer, after(t)[1])) =>
                      (t.inside # <<>> /\ t.inside[1] = after(t)[1])
    /\ (comps = <<CBlock>> /\ input = BlockExample /\ yielded # <<>>) =>
          yielded[1].inside =
              <<" ", "a", " ", "{", " ", "b", " ", "}", " ", "c", " ">>

\* The character the Token constructor's loop is looking at.
Scanning == pc = "extract" /\ i < Len(after(tok[1]))
Current == after(tok[1])[i + 1]

\* C10: during extraction the depth is never negative; a character becomes
\* the token's closer only if it matches closer at depth 0; and a closer met
\* at depth > 0 does not end the extraction.
C10_DepthBalanced ==
    [][ /\ depth' >= 0
        /\ (Scanning /\ tok'[1].closer # tok[1].closer) =>
              (depth = 0 /\ Test(tok[1].competence.closer, Current)
               /\ tok'[1].closer = <<Current>>)
        /\ (Scanning /\ depth > 0 /\ Test(tok[1].competence.closer, Current)) =>
              pc' = "extract"
      ]_vars

\* The 0-based position just after the last character the constructor of
\* the token t consumed, its loop having stopped at index n of the text after
\* the match: the opener (the first character under DIRECT_ENTRY), the
\* characters scanned before n, and the closer at n when one was recorded.
Consumed(t, n) ==
    IF ~t.insideSet THEN t.index + Len(t.text)
    ELSE t.index + Len(t.text) + n + (IF t.closer # <<>> THEN 1 ELSE 0)

\* C11: when the consumer pulls again after a token, the search resumes at or
\* beyond the last character the token's extraction consumed, and the next
\* token does not start inside the text that extraction scanned.
C11_NoRescanOfConsumedText ==
    [][ /\ (pc = "yielded" /\ pc' = "exec") =>
              lastIndex' >= Consumed(tok[1], i) - 1
        /\ (pc = "matched" /\ tok # <<>> /\ tok' # tok) =>
              start(tok'[1]) >= Consumed(tok[1], i)
      ]_vars

\* C12: every token's total is the slice of the input from its start to its
\* end, and holds the opener, the inside and the closer whenever the
\* extraction was entered, an empty inside included.
C12_TotalIsContiguousSlice ==
    \A k \in 1..Len(yielded) :
        LET t == yielded[k]
        IN  /\ end(t) = start(t) + Len(total(t))
            /\ total(t) = Slice(input, start(t), end(t))
            /\ t.insideSet => total(t) = t.text \o t.opener \o t.inside \o t.closer

\* The competence asks for direct entry and has no closer pattern.
Broken(c) == forced(c) /\ c.closer = Undefined

\* C13: a competence with DIRECT_ENTRY and no closer is rejected when it is
\* declared: no token sequence made with it yields a token or comes to its
\* end, whether or not the input matches its foremost pattern.
C13_NoCloserRejectedAtSetup ==
    (\E k \in 1..Len(comps) : Broken(comps[k])) => pc \notin {"yielded", "done"}

\* The lists parse leaves behind: the returned list and every eated list.
RECURSIVE Count(_, _)
Count(list, x) ==
    IF list = <<>> THEN 0
    ELSE (IF Head(list) = x THEN 1 ELSE 0) + Count(Tail(list), x)
RECURSIVE SumOver(_, _)
SumOver(S, x) ==
    IF S = {} THEN 0
    ELSE LET k == CHOOSE y \in S : TRUE
         IN  Count(eated[k].before, x) + Count(eated[k].after, x)
             + SumOver(S \ {k}, x)
Eaten(x) == SumOver(DOMAIN eated, x)

\* C14: when parse has returned, every token pulled from the stream is
\* either once in the returned list, which is in stream order, or once in one
\* eated list of one other token, and never both; no token is left unpulled.
C14_EveryTokenExactlyOnce ==
    parsePc = "returned" =>
        /\ pulled = Len(stream)
        /\ \A x \in 1..pulled :
              /\ Count(result, x) + Eaten(x) = 1
              /\ Count(eated[x].before, x) + Count(eated[x].after, x) = 0
        /\ \A m, n \in 1..Len(result) : m < n => result[m] < result[n]

\* parse returned a list although tokens were eaten on both sides, one of
\* them a token that had eaten another.
C14_Witness ==
    /\ parsePc = "returned"
    /\ \E k \in 1..Len(stream) :
          /\ eated[k].before # <<>>
          /\ eated[k].after # <<>>
          /\ eated[eated[k].before[1]].after # <<>>

\* The eaters the current token of parse declares, and whether the tokens
\* around it satisfy them: the eaten-before list is read off the end of the
\* result list, the eaten-after list off the stream.
Wanted(list) == IF list = <<>> THEN <<>> ELSE list[1]
BeforeSatisfied ==
    LET want == Wanted(stream[current].before)
    IN  /\ Len(want) <= Len(result)
        /\ \A n \in 1..Len(want) :
              stream[result[Len(result) - n + 1]].identifier = want[n]
AfterSatisfied ==
    LET want == Wanted(stream[current].after)
    IN  /\ pulled + Len(want) <= Len(stream)
        /\ \A n \in 1..Len(want) : stream[pulled + n].identifier = want[n]

\* C15: parse goes on past a token only if all the eaters it declares are
\* satisfied, and then eated.before holds the most recent surviving previous
\* tokens, most recent first, and eated.after the next tokens of the stream,
\* in the declared lengths; in every other case parse throws, and having
\* thrown it returns no list.
C15_EatersSatisfiedOrFatal ==
    [][ /\ (parsePc = "loop" /\ current # 0) =>
              IF BeforeSatisfied /\ AfterSatisfied
              THEN LET wb == Wanted(stream[current].before)
                       wa == Wanted(stream[current].after)
                   IN  /\ parsePc' = "loop"
                       /\ parseErr' = NoError
                       /\ eated'[current].before =
                             [n \in 1..Len(wb) |-> result[Len(result) - n + 1]]
                       /\ eated'[current].after = [n \in 1..Len(wa) |-> pulled + n]
                       /\ result' = Append(SubSeq(result, 1, Len(result) - Len(wb)),
                                           current)
              ELSE parsePc' = "threw" /\ parseErr' # NoError
        /\ parsePc' = "returned" => (parsePc = "loop" /\ parseErr = NoError)
        /\ parsePc = "threw" => parsePc' = "threw"
      ]_vars

\* parse threw on a mismatch of the token after the current one, after a
\* token whose eaters were satisfied.
C15_Witness ==
    /\ parsePc = "threw"
    /\ parseErr = ParseError("unexpected", pulled, TRUE)
    /\ \E k \in 1..Len(result) : eated[result[k]].before # <<>>

\* C16: synthesize yields the nodes of the tokens one at a time, in input
\* order; on the first token whose resolve or validation fails it logs the
\* token's text and position and yields nothing for it or for any later
\* token; the nodes yielded before stay as they are; a pull on the finished
\* sequence yields nothing.
C16_SynthesizeStopsAtFailure ==
    [][ /\ Len(synOut') <= Len(synOut) + 1
        /\ synOut' = SubSeq(synTokens, 1, Len(synOut'))
        /\ SubSeq(synOut', 1, Len(synOut)) = synOut
        /\ synPos' # synPos =>
              /\ nodes' = nodes
              /\ IF nodify(synTokens[synPos']).threw = "none"
                 THEN synOut' = Append(synOut, nodify(synTokens[synPos']).ret[1])
                 ELSE /\ synOut' = synOut
                      /\ synPc' = "threw"
                      /\ synLog' = Append(synLog, LogEntry(synPos'))
        /\ synPc \in {"done", "threw"} =>
              (synPc' = synPc /\ synOut' = synOut /\ synPos' = synPos)
      ]_vars

\* The generator failed on its second or a later token and was pulled again.
C16_Witness ==
    /\ synPc = "threw"
    /\ synOut # <<>>
    /\ synPos < Len(synTokens)
    /\ synPulls > 0
    /\ synLog = <<LogEntry(synPos)>>

\* C17: nodify returns the node only if the registry has a schema for the
\* node's type and that schema's compare accepts the node's value; a node of
\* an unregistered type and a node whose value is rejected each end in an
\* error, and the node is not returned.
C17_NodifyReturnsValidNodesOnly ==
    [][ synPos' # synPos =>
          LET t == synTokens[synPos']
              registered == t \in NodeIds /\ nodes[t].type \in DOMAIN schemas
              accepted == registered
                          /\ compare(nodes[t].value, schemas[nodes[t].type]) = "true"
          IN  /\ Len(synOut') > Len(synOut) => accepted
              /\ (t \in NodeIds /\ ~registered) =>
                    (synErr' = "SchemaNotFoundError" /\ synOut' = synOut)
              /\ (registered /\ compare(nodes[t].value, schemas[nodes[t].type]) = "false") =>
                    (synErr' = "Error" /\ synOut' = synOut)
      ]_vars

\* nodify has returned a node and then refused one whose value the schema of
\* its type rejects.
C17_Witness ==
    /\ synOut # <<>>
    /\ synErr = "Error"
    /\ synTokens[synPos] \in NodeIds
    /\ check(synTokens[synPos])
    /\ validate(synTokens[synPos]) = "false"

\* C18: the clone has the type of the original and an equal value, and what
\* is changed afterwards through the value of the one is not seen through
\* the value of the other.
C18_CloneIsIndependent ==
    [][ /\ nodOp'.op = "clone" =>
              LET o == objs[nodOp'.node]
                  c == objs'[Len(objs')]
              IN  c.type = o.type /\ c.value = o.value
        /\ nodOp'.op = "push" =>
              \A x \in 1..Len(objs) :
                  (origin[x] = nodOp'.node \/ origin[nodOp'.node] = x) =>
                      ValueOf(objs[x])' = ValueOf(objs[x])
      ]_vars

\* C19: validate throws the schema-not-found error exactly when the node's
\* type has no schema, that is when check(node) is false; otherwise its
\* outcome is that of compare on the node's value for the schema of that
\* type; it changes neither the schema map nor the serialization cache.
C19_ValidateThrowsIffUnregistered ==
    [][ lastOp'.op = "validate" =>
          LET n == lastOp'.arg[1]
              registered == nodes[n].type \in DOMAIN schemas
              expected == compare(nodes[n].value, schemas[nodes[n].type])
          IN  /\ registered <=> check(n)
              /\ lastOp'.threw = "SchemaNotFoundError" <=> ~registered
              /\ registered =>
                    IF expected \in {"true", "false"}
                    THEN lastOp'.threw = "none" /\ lastOp'.ret = <<expected>>
                    ELSE lastOp'.threw = expected /\ lastOp'.ret = <<>>
              /\ schemas' = schemas
              /\ serializations' = serializations
      ]_vars

\* validate threw schema-not-found for a node whose serialization is cached.
C19_Witness ==
    /\ lastOp.op = "validate"
    /\ lastOp.threw = "SchemaNotFoundError"
    /\ lastOp.arg[1] \in DOMAIN serializations

\* The competences of the running generator whose foremost accepts the text
\* of the current match.
Accepting ==
    { k \in 1..Len(comps) : ForemostTest(comps[k].foremost, match[1].text) }

\* C20: the token made for a match has the first competence, in
\* registration order, whose foremost accepts the matched text; when none
\* accepts it no token is made, a warning is logged and the search goes on
\* from the end of the match.
C20_FirstAcceptingCompetence ==
    [][ pc = "matched" =>
          IF Accepting = {}
          THEN /\ pc' = "exec"
               /\ tok' = tok
               /\ yielded' = yielded
               /\ err' = err
               /\ warns' = Min(warns + 1, MaxWarns)
               /\ lastIndex' = match[1].index + Len(match[1].text)
          ELSE /\ tok' # <<>>
               /\ \E k \in Accepting :
                     /\ \A m \in Accepting : k <= m
                     /\ tok'[1].competence = comps[k]
               /\ tok'[1].text = match[1].text
               /\ warns' = warns
      ]_vars

\* A token was yielded whose competence is not the one whose alternative
\* matched: an earlier competence accepts the text as well.
C20_Witness ==
    \E k \in 1..Len(yielded) :
        /\ yielded[k].competence.foremost # yielded[k].text
        /\ yielded[k].competence = comps[1]
        /\ ForemostTest(comps[2].foremost, yielded[k].text)

\* The competences a map holds under an identifier, and its identifiers.
EntriesOf(cs, id) == { cs[k] : k \in { m \in 1..Len(cs) : cs[m].identifier = id } }
KeysOf(cs) == { cs[k].identifier : k \in 1..Len(cs) }

\* C21: declare makes the entry of each declared identifier the competence
\* declared (the last one given under it), with one warning for every
\* competence whose identifier was registered when its turn came, and no
\* error; undeclare removes the identifiers given, with one warning for every
\* identifier that was not registered when its turn came; in both every
\* other identifier keeps its competence.
C21_DeclareReplacesUndeclareRemoves ==
    [][ /\ declared' # declared =>
              /\ err' = err
              /\ \A k \in 1..Len(competences') : \A m \in 1..Len(competences') :
                    competences'[k].identifier = competences'[m].identifier => k = m
        /\ (declared' # declared /\ trOp'.op = "declare") =>
              LET list == trOp'.args
                  ids == { list[k].identifier : k \in 1..Len(list) }
                  lastOf(id) == CHOOSE k \in 1..Len(list) :
                                   /\ list[k].identifier = id
                                   /\ \A m \in (k + 1)..Len(list) : list[m].identifier # id
                  known(k) == list[k].identifier \in
                                 KeysOf(competences)
                                 \cup { list[m].identifier : m \in 1..(k - 1) }
              IN  /\ KeysOf(competences') = KeysOf(competences) \cup ids
                  /\ \A id \in ids : EntriesOf(competences', id) = {list[lastOf(id)]}
                  /\ \A id \in KeysOf(competences) \ ids :
                        EntriesOf(competences', id) = EntriesOf(competences, id)
                  /\ trWarns' - trWarns = Cardinality({ k \in 1..Len(list) : known(k) })
        /\ (declared' # declared /\ trOp'.op = "undeclare") =>
              LET list == trOp'.args
                  ids == { list[k] : k \in 1..Len(list) }
                  unknown(k) == list[k] \notin
                                   KeysOf(competences) \ { list[m] : m \in 1..(k - 1) }
              IN  /\ KeysOf(competences') = KeysOf(competences) \ ids
                  /\ \A id \in KeysOf(competences') :
                        EntriesOf(competences', id) = EntriesOf(competences, id)
                  /\ trWarns' - trWarns = Cardinality({ k \in 1..Len(list) : unknown(k) })
                  /\ (ids \cap KeysOf(competences) = {}) => competences' = competences
      ]_vars

\* A declare has replaced the competence of a registered identifier, with a
\* warning, next to another competence that stayed.
C21_Witness ==
    /\ trOp = [op |-> "declare", args |-> <<CLiteralX>>]
    /\ trWarns = 1
    /\ competences = <<CLiteralX, CBlock>>

C23_TokenizeTerminates ==
    /\ [][ /\ (comps # <<>> /\ pc = "exec" /\ pc' = "matched") =>
                 lastIndex' > lastIndex
           /\ (comps # <<>> /\ pc' \notin {"done", "exec"}) =>
                 lastIndex' >= lastIndex
           /\ (comps # <<>> /\ pc = "yielded" /\ pc' = "exec") =>
                 lastIndex' >= lastIndex
         ]_vars
    /\ (pc = "idle" /\ competences # <<>>) ~> (pc \in {"done", "error"})

\* A generator with a competence has skipped nothing, yielded tokens and
\* returned with the scan position reset.
C23_Witness ==
    /\ pc = "done"
    /\ comps # <<>>
    /\ Len(yielded) >= 2
    /\ end(yielded[Len(yielded)]) < Len(input)

\* The primitive kind names, and the structures made of primitive names,
\* arrays, plain objects and the kinds that are no spec (number, boolean,
\* null, undefined).
PrimitiveNames == {"string", "number", "boolean", "object", "undefined", "function"}
RECURSIVE Covered(_)
Covered(spec) ==
    CASE spec.k = "string" -> spec.s \in PrimitiveNames
      [] spec.k = "array" -> \A n \in 1..Len(spec.items) : Covered(spec.items[n])
      [] spec.k = "object" ->
            /\ spec.s = "Object"
            /\ \A n \in 1..Len(spec.items) : Covered(spec.items[n].val)
      [] spec.k = "function" -> FALSE
      [] OTHER -> TRUE

\* The reference definition of the comparison.
RECURSIVE Matches(_, _)
Matches(v, spec) ==
    CASE spec.k = "string" ->
            \/ spec.s = "object" /\ v.k \in {"object", "array", "null"}
            \/ spec.s # "object" /\ v.k = spec.s
      [] spec.k = "array" ->
            /\ v.k = "array"
            /\ \A n \in 1..Len(v.items) :
                  IF Len(spec.items) = 1 THEN Matches(v.items[n], spec.items[1])
                  ELSE \E m \in 1..Len(spec.items) : Matches(v.items[n], spec.items[m])
      [] spec.k = "object" ->
            /\ v.k \in {"object", "array"}
            /\ \A n \in 1..Len(spec.items) :
                  /\ In(spec.items[n].key, v)
                  /\ Matches(Get(v, spec.items[n].key), spec.items[n].val)
      [] OTHER -> FALSE

\* C24: on structures made of primitive names, arrays, plain objects and
\* the other kinds, compare returns what the reference definition gives.
C24_CompareEqualsReference ==
    (cmpResult \notin {"none", "off"} /\ Covered(cmpStructure)) =>
        cmpResult = IF Matches(cmpValue, cmpStructure) THEN "true" ELSE "false"

\* compare rejected an object that lacks a key of the object spec.
C24_Witness ==
    /\ cmpResult = "false"
    /\ cmpStructure = Obj("Object", <<Prop("a", Str("number"))>>)
    /\ cmpValue = Obj("Object", <<Prop("b", Num("1"))>>)

\* The object spec has a field whose spec is a string that is no kind name.
HasLiteralField(spec) ==
    /\ spec.k = "object"
    /\ \E n \in 1..Len(spec.items) :
          spec.items[n].val.k = "string" /\ spec.items[n].val.s \notin PrimitiveNames

\* The object spec without those fields.
WithoutLiteralFields(spec) ==
    [spec EXCEPT !.items =
        SelectSeq(spec.items,
                  LAMBDA f : ~(f.val.k = "string" /\ f.val.s \notin PrimitiveNames))]

\* C27 as stated: a field declared with a literal-string spec does not
\* constrain the comparison, the value is judged as if the spec had no such
\* field.
C27_LiteralFieldUnconstrained ==
    (cmpResult \notin {"none", "off"} /\ HasLiteralField(cmpStructure)) =>
        cmpResult = compare(cmpValue, WithoutLiteralFields(cmpStructure))

\* C27, amended: compare never tests literal-value equality, and no value
\* has a literal string for its runtime kind, so an object spec with a
\* literal-string field accepts no value, whatever that field holds.
C27_LiteralFieldRejectsAll ==
    (cmpResult \notin {"none", "off"} /\ HasLiteralField(cmpStructure)) =>
        cmpResult = "false"

\* compare rejected an object whose field holds the very string the spec
\* names.
C27_Witness ==
    /\ cmpResult = "false"
    /\ cmpStructure = Obj("Object", <<Prop("a", Str("hello"))>>)
    /\ cmpValue = Obj("Object", <<Prop("a", Str("hello"))>>)

\* How many openers of c are still open after the first k characters of s; a
\* closer with nothing open closes nothing.
RECURSIVE Level(_, _, _)
Level(c, s, k) ==
    IF k = 0 THEN 0
    ELSE LET l == Level(c, s, k - 1)
         IN  IF Test(c.opener, s[k]) THEN l + 1
             ELSE IF Test(c.closer, s[k]) THEN (IF l > 0 THEN l - 1 ELSE 0)
             ELSE l

\* The delimiters of s that lie outside every opener ... closer structure.
SplitPoints(c, s) ==
    { k \in 1..Len(s) : s[k] = Delimiter /\ Level(c, s, k - 1) = 0 }

\* s cut at those delimiters, from position k on, cur being the segment so
\* far; an empty last segment is left out.
RECURSIVE SegmentsFrom(_, _, _, _)
SegmentsFrom(c, s, k, cur) ==
    IF k > Len(s) THEN (IF cur = <<>> THEN <<>> ELSE <<cur>>)
    ELSE IF k \in SplitPoints(c, s) THEN <<cur>> \o SegmentsFrom(c, s, k + 1, <<>>)
    ELSE SegmentsFrom(c, s, k + 1, Append(cur, s[k]))

\* C25: splitByDelimiter yields, in input order, the segments between the
\* delimiters that lie outside every opener ... closer structure; a
\* delimiter inside a structure never splits, one outside always does, also
\* after an unmatched closer.
C25_SplitsAtTopLevelDelimiters ==
    spPc = "done" => spYielded = SegmentsFrom(spCompetence, spInside, 1, <<>>)

\* C26: every error parse raises for a mismatch (before or after) or for an
\* empty result list names the offending token and carries its line and
\* its column.
C26_EaterFailuresAreLocated ==
    (parsePc = "threw" /\ parseErr.kind \in {"unexpected", "illegal"}) =>
        (parseErr.token # 0 /\ parseErr.located)

\* C28: resolve validates before it consults the cache. A resolve of a node
\* whose type has no schema raises schema-not-found and one of a node whose
\* value does not match raises the validation failure, cached or not, and
\* leaves the cache as it is; the cache changes only by a resolve without
\* skip_cache that returned, which adds the entry of the node it resolved.
C28_ResolveValidatesBeforeCache ==
    [][ /\ lastOp'.op = "resolve" =>
              LET n == lastOp'.arg[1]
                  registered == nodes[n].type \in DOMAIN schemas
                  matches == compare(nodes[n].value, schemas[nodes[n].type])
              IN  /\ ~registered => lastOp'.threw = "SchemaNotFoundError"
                  /\ (registered /\ matches = "false") => lastOp'.threw = "Error"
                  /\ (registered /\ matches = "true") => lastOp'.threw = "none"
                  /\ lastOp'.threw # "none" =>
                        lastOp'.ret = <<>> /\ serializations' = serializations
        /\ serializations' # serializations =>
              /\ lastOp'.op = "resolve" /\ ~lastOp'.skip /\ lastOp'.threw = "none"
              /\ lastOp'.arg[1] \notin DOMAIN serializations
              /\ DOMAIN serializations' = DOMAIN serializations \cup {lastOp'.arg[1]}
      ]_vars

\* A resolve without skip_cache raised the validation failure for a node
\* whose serialization is cached.
C28_Witness ==
    /\ lastOp.op = "resolve" /\ ~lastOp.skip
    /\ lastOp.threw = "Error"
    /\ lastOp.arg[1] \in DOMAIN serializations

\* C29: a token sequence takes its competences and its combined pattern from
\* the live map at the first pull, whatever was declared or undeclared
\* since tokenize() was called, and keeps them from then on: a declare or
\* undeclare made after the first pull changes neither them nor anything
\* else of the sequence in flight, whose tokens are all of its own
\* competences.
C29_CompetencesTakenAtFirstPull ==
    [][ /\ (pc = "idle" /\ pc' # "idle") =>
              /\ comps' = competences
              /\ pattern' = createPattern(competences)
        /\ pc' \in {"off", "idle"} => (comps' = comps /\ yielded' = yielded)
        /\ pc \notin {"off", "idle"} =>
              /\ comps' = comps
              /\ pattern' = pattern
              /\ \A k \in 1..Len(yielded') :
                    \E m \in 1..Len(comps) : yielded'[k].competence = comps[m]
        /\ (declared' # declared /\ pc \notin {"off", "idle"}) =>
              /\ pc' = pc /\ lastIndex' = lastIndex /\ match' = match
              /\ tok' = tok /\ yielded' = yielded /\ err' = err
      ]_vars

\* The sequence has finished with a token of a competence that was
\* undeclared, or replaced, after the first pull.
C29_Witness ==
    /\ pc = "done"
    /\ comps # competences
    /\ \E k \in 1..Len(yielded) :
          yielded[k].competence \notin EntriesOf(competences, yielded[k].competence.identifier)

\* The identifiers of a map, in its order.
IdsOf(cs) == [k \in 1..Len(cs) |-> cs[k].identifier]

\* The first place an identifier has in a list of competences.
FirstIn(list, id) ==
    CHOOSE k \in 1..Len(list) :
        /\ list[k].identifier = id
        /\ \A m \in 1..(k - 1) : list[m].identifier # id

\* C30: precedence is the order of first registration. A declare leaves
\* every registered identifier at its position, re-declared or not, and
\* puts the new identifiers after them in the order they were first given;
\* an undeclare takes the identifiers given out and leaves the others in
\* their order, so that an identifier undeclared and declared again is
\* last; the alternatives of the pattern and the competences searched for a
\* match follow that order.
C30_PrecedenceIsFirstRegistration ==
    [][ /\ (declared' # declared /\ trOp'.op = "declare") =>
              LET list == trOp'.args
                  old == Len(competences)
              IN  /\ SubSeq(IdsOf(competences'), 1, old) = IdsOf(competences)
                  /\ \A p \in (old + 1)..Len(competences') :
                        \A q \in (p + 1)..Len(competences') :
                            FirstIn(list, competences'[p].identifier)
                                < FirstIn(list, competences'[q].identifier)
        /\ (declared' # declared /\ trOp'.op = "undeclare") =>
              LET ids == { trOp'.args[k] : k \in 1..Len(trOp'.args) }
              IN  IdsOf(competences') =
                      SelectSeq(IdsOf(competences), LAMBDA id : id \notin ids)
        /\ (pc = "idle" /\ pc' # "idle" /\ competences # <<>>) =>
              /\ IdsOf(comps') = IdsOf(competences)
              /\ pattern' = [k \in 1..Len(competences) |-> competences[k].foremost]
      ]_vars

\* After three calls an identifier that was registered first stands last:
\* it was undeclared and declared again.
C30_Witness ==
    /\ declared = 3
    /\ trOp = [op |-> "declare", args |-> <<CLiteral>>]
    /\ competences = <<CBlock, CLiteral>>
    /\ trWarns = 0

====
